---- MODULE Spec2Model ----
(***************************************************************************)
(* Model of the order endpoints of alpaca_api (src/src/alpaca_api/main.py) *)
(* and of the request schema they consume (src/src/alpaca_api/models.py).  *)
(*                                                                         *)
(* One inbound request is drawn by Init: its JSON body and the request    *)
(* object the schema makes of it.  The handler of the route it targets    *)
(* runs as one action and leaves the HTTP response and the log of the      *)
(* calls it made to the TradingClient.                                     *)
(*                                                                         *)
(* Optional values (Python's X | None) are sequences of length <= 1:       *)
(* None is << >> and a present value v is << v >>.                         *)
(* The brokerage SDK's request classes are outside the repository: an SDK  *)
(* request object is the record of the keyword arguments the handler       *)
(* passes to its constructor, tagged with the class name in "shape".       *)
(***************************************************************************)
EXTENDS Integers, Sequences, FiniteSets, TLC

VARIABLES
    endpoint,     \* route of the inbound request
    body,         \* the JSON body of the inbound request
    request,      \* the validated request body (a models.py record), or
                  \* None when the schema accepts no such body
    pc,           \* "received" before the handler ran, "responded" after,
                  \* "unprocessable" when the schema refused the body
    response,     \* the HTTP response: [status, detail]
    calls,        \* arguments of the calls made to the TradingClient: the
                  \* request objects given to submit_order, or the symbol
                  \* and close_options given to close_position
    clientCache,  \* lru_cache of get_trading_client: None or Some(handle)
    constructed,  \* number of TradingClient objects constructed
    worker,       \* the threads of the server's pool: where each is in a
                  \* handler, the request it was given and what it answered
    frames,       \* the local variables of the handler calls in progress
    pyFormat      \* how the process's Python formats an enum member

seqVars == <<endpoint, body, request, pc, response, calls>>
concVars == <<worker, frames, pyFormat>>
vars == <<endpoint, body, request, pc, response, calls, clientCache, constructed,
          worker, frames, pyFormat>>

----------------------------------------------------------------------------
(* Bounds of the model *)

MaxPrice == 2   \* limit_price, stop_price range over 1..MaxPrice
MaxQty == 1     \* qty, notional, trail_price, trail_percent range over 1..MaxQty
MaxLegs == 5    \* longest leg list of an inbound multi-leg request
NumWorkers == 2 \* threads handling requests at the same time

----------------------------------------------------------------------------
(* Optional values *)

None == << >>
Some(v) == << v >>
Opt(S) == {None} \cup {Some(v) : v \in S}
IsNone(x) == x = None
\* Python's truth value of a Decimal | None: None and 0 are false
Truthy(x) == x # None /\ x[1] # 0

----------------------------------------------------------------------------
(* Enumerations of models.py, by value *)

OrderSideValues == {"buy", "sell"}
OrderTypeValues == {"market", "limit", "stop", "stop_limit", "trailing_stop"}
TimeInForceValues == {"day", "gtc", "opg", "cls", "ioc", "fok"}
PositionIntentValues ==
    {"buy_to_open", "buy_to_close", "sell_to_open", "sell_to_close"}

(* Inbound values *)
Prices == 1..MaxPrice
Qtys == 1..MaxQty
Symbols == {"AAPL", "MSFT"}
ClientOrderIds == {"client-1"}
TifInputs == {"day", "gtc"}
IntentInputs == {"buy_to_open", "sell_to_close"}

OrderRequest ==
    [symbol : Symbols, qty : Opt(Qtys), notional : Opt(Qtys),
     side : OrderSideValues, type : OrderTypeValues,
     time_in_force : TifInputs,
     limit_price : Opt(Prices), stop_price : Opt(Prices),
     trail_price : Opt(Qtys), trail_percent : Opt(Qtys),
     extended_hours : BOOLEAN, client_order_id : Opt(ClientOrderIds)]

OptionOrderRequest ==
    [symbol : Symbols, qty : Qtys, side : OrderSideValues,
     type : OrderTypeValues, time_in_force : TifInputs,
     position_intent : Opt(IntentInputs),
     limit_price : Opt(Prices), stop_price : Opt(Prices)]

\* The legs an inbound multi-leg request is made of: one leg for each way
\* side and position_intent can be present or absent.
LegPool ==
    {[symbol |-> "AAPL250117C00150000", ratio_qty |-> 1,
      side |-> Some("buy"), position_intent |-> None],
     [symbol |-> "AAPL250117C00160000", ratio_qty |-> 2,
      side |-> Some("sell"), position_intent |-> Some("sell_to_open")],
     [symbol |-> "AAPL250117P00150000", ratio_qty |-> 1,
      side |-> None, position_intent |-> Some("buy_to_close")],
     [symbol |-> "AAPL250117P00140000", ratio_qty |-> 3,
      side |-> None, position_intent |-> None]}

LegLists == UNION {[1..n -> LegPool] : n \in 0..MaxLegs}

MultiLegOrderRequest ==
    [qty : Qtys, type : OrderTypeValues, time_in_force : TifInputs,
     legs : LegLists, limit_price : Opt(Prices)]

----------------------------------------------------------------------------
(* JSON bodies.  A body may name a type that is no member of OrderType,    *)
(* and may omit time_in_force and extended_hours (None), which have        *)
(* defaults in models.py.                                                  *)

TypeInputs == OrderTypeValues \cup {"iceberg"}
TifBodyInputs == Opt(TifInputs \ {"day"})
ExtendedHoursBodyInputs == Opt({TRUE})

OrderBody ==
    [symbol : Symbols, qty : Opt(Qtys), notional : Opt(Qtys),
     side : OrderSideValues, type : TypeInputs,
     time_in_force : TifBodyInputs,
     limit_price : Opt(Prices), stop_price : Opt(Prices),
     trail_price : Opt(Qtys), trail_percent : Opt(Qtys),
     extended_hours : ExtendedHoursBodyInputs,
     client_order_id : Opt(ClientOrderIds)]

OptionOrderBody ==
    [symbol : Symbols, qty : Qtys, side : OrderSideValues,
     type : TypeInputs, time_in_force : TifBodyInputs,
     position_intent : Opt(IntentInputs),
     limit_price : Opt(Prices), stop_price : Opt(Prices)]

MultiLegOrderBody ==
    [qty : Qtys, type : TypeInputs, time_in_force : TifBodyInputs,
     legs : LegLists, limit_price : Opt(Prices)]

\* DELETE /positions/{symbol}: the path parameter and the optional body
\* (ClosePositionRequest | None), whose qty and percentage are any Decimal,
\* 0 included.
CloseAmounts == 0..MaxQty
ClosePositionRequest == [qty : Opt(CloseAmounts), percentage : Opt(CloseAmounts)]
ClosePositionArgs == [symbol : Symbols, request : {None} \cup ClosePositionRequest]

\* time_in_force: TimeInForce = TimeInForce.day
TimeInForceField(b) ==
    IF b.time_in_force = None THEN "day" ELSE b.time_in_force[1]

\* extended_hours: bool = False
ExtendedHoursField(b) ==
    IF b.extended_hours = None THEN FALSE ELSE b.extended_hours[1]

\* The request object the schema makes of a body: None when type is no
\* member of OrderType (type: OrderType), defaults filled in otherwise.
ValidateOrderRequest(b) ==
    IF b.type \notin OrderTypeValues THEN None
    ELSE [b EXCEPT !.time_in_force = TimeInForceField(b),
                   !.extended_hours = ExtendedHoursField(b)]

ValidateOptionOrderRequest(b) ==
    IF b.type \notin OrderTypeValues THEN None
    ELSE [b EXCEPT !.time_in_force = TimeInForceField(b)]

ValidateMultiLegOrderRequest(b) ==
    IF b.type \notin OrderTypeValues THEN None
    ELSE [b EXCEPT !.time_in_force = TimeInForceField(b)]

----------------------------------------------------------------------------
(* Enumerations of the brokerage SDK (alpaca.trading.enums), by member.    *)
(* EnumName(v) is the member whose value is v.                             *)

SdkOrderSide(v) == IF v = "buy" THEN "BUY" ELSE "SELL"

SdkTimeInForce(v) ==
    CASE v = "day" -> "DAY" [] v = "gtc" -> "GTC" [] v = "opg" -> "OPG"
      [] v = "cls" -> "CLS" [] v = "ioc" -> "IOC" [] v = "fok" -> "FOK"

SdkOrderType(v) ==
    CASE v = "market" -> "MARKET" [] v = "limit" -> "LIMIT"
      [] v = "stop" -> "STOP" [] v = "stop_limit" -> "STOP_LIMIT"
      [] v = "trailing_stop" -> "TRAILING_STOP"

SdkPositionIntent(v) ==
    CASE v = "buy_to_open" -> "BUY_TO_OPEN" [] v = "buy_to_close" -> "BUY_TO_CLOSE"
      [] v = "sell_to_open" -> "SELL_TO_OPEN" [] v = "sell_to_close" -> "SELL_TO_CLOSE"

----------------------------------------------------------------------------
(* HTTP results *)

StatusOk == 200
StatusBadRequest == 400
StatusServerError == 500
StatusUnprocessable == 422

\* raise HTTPException(status_code=400, detail=...): detail is the sequence
\* of the fragments the message is made of.
\* Variant: the rejection is raised with the status of a schema error.
Reject_AsUnprocessable(detail) == [ok |-> FALSE, status |-> 422, detail |-> detail]

Reject(detail) == [ok |-> FALSE, status |-> StatusBadRequest, detail |-> detail]
Accept(intent) == [ok |-> TRUE, intent |-> intent]

\* f"{order.type}" of a (str, Enum) member: its value before Python 3.11,
\* "Class.member" from 3.11 on.
PythonEnumFormats == {"value", "name"}
\* Variant: the message is given the class of the value, not the value.
FormatOrderType_ClassOnly(v, fmt) == IF fmt = "value" THEN v ELSE "OrderType"

FormatOrderType(v, fmt) == IF fmt = "value" THEN v ELSE "OrderType." \o v

----------------------------------------------------------------------------
(* submit_order: main.py 118-193.  One operator per branch of the type     *)
(* dispatch; side and tif are the locals of lines 121-122.                 *)

\* Variant: the market branch leaves notional out, as the stop_limit and
\* trailing_stop branches do.
EquityMarket_DropsNotional(order, side, tif) ==
    Accept([shape |-> "MarketOrderRequest",
            symbol |-> order.symbol, qty |-> order.qty,
            notional |-> None, side |-> side,
            time_in_force |-> tif,
            extended_hours |-> order.extended_hours,
            client_order_id |-> order.client_order_id])

EquityMarket(order, side, tif) ==
    Accept([shape |-> "MarketOrderRequest",
            symbol |-> order.symbol, qty |-> order.qty,
            notional |-> order.notional, side |-> side,
            time_in_force |-> tif,
            extended_hours |-> order.extended_hours,
            client_order_id |-> order.client_order_id])

\* Variant: the guard of the limit branch tests stop_price.
EquityLimit_GuardsStopPrice(order, side, tif) ==
    IF IsNone(order.stop_price)
    THEN Reject(<<"limit_price required for limit orders">>)
    ELSE Accept([shape |-> "LimitOrderRequest",
            symbol |-> order.symbol, qty |-> order.qty,
            notional |-> order.notional, side |-> side,
            time_in_force |-> tif,
            limit_price |-> order.limit_price,
            extended_hours |-> order.extended_hours,
            client_order_id |-> order.client_order_id])

EquityLimit(order, side, tif) ==
    IF IsNone(order.limit_price)
    THEN Reject(<<"limit_price required for limit orders">>)
    ELSE Accept([shape |-> "LimitOrderRequest",
            symbol |-> order.symbol, qty |-> order.qty,
            notional |-> order.notional, side |-> side,
            time_in_force |-> tif,
            limit_price |-> order.limit_price,
            extended_hours |-> order.extended_hours,
            client_order_id |-> order.client_order_id])

\* Variant: a stop order with a limit_price is passed on without its
\* stop_price being looked at.
EquityStop_SkipsGuardWithLimit(order, side, tif) ==
    IF IsNone(order.stop_price) /\ IsNone(order.limit_price)
    THEN Reject(<<"stop_price required for stop orders">>)
    ELSE Accept([shape |-> "StopOrderRequest",
            symbol |-> order.symbol, qty |-> order.qty,
            notional |-> order.notional, side |-> side,
            time_in_force |-> tif,
            stop_price |-> order.stop_price,
            extended_hours |-> order.extended_hours,
            client_order_id |-> order.client_order_id])

EquityStop(order, side, tif) ==
    IF IsNone(order.stop_price)
    THEN Reject(<<"stop_price required for stop orders">>)
    ELSE Accept([shape |-> "StopOrderRequest",
            symbol |-> order.symbol, qty |-> order.qty,
            notional |-> order.notional, side |-> side,
            time_in_force |-> tif,
            stop_price |-> order.stop_price,
            extended_hours |-> order.extended_hours,
            client_order_id |-> order.client_order_id])

\* Variant: "and" for "or" in the guard of the stop_limit branch.
EquityStopLimit_AndGuard(order, side, tif) ==
    IF IsNone(order.limit_price) /\ IsNone(order.stop_price)
    THEN Reject(<<"limit_price and stop_price required for stop_limit orders">>)
    ELSE Accept([shape |-> "StopLimitOrderRequest",
            symbol |-> order.symbol, qty |-> order.qty,
            side |-> side, time_in_force |-> tif,
            limit_price |-> order.limit_price,
            stop_price |-> order.stop_price,
            extended_hours |-> order.extended_hours,
            client_order_id |-> order.client_order_id])

\* Variant: the stop_limit branch passes notional, as the limit and stop
\* branches do.
EquityStopLimit_PassesNotional(order, side, tif) ==
    IF IsNone(order.limit_price) \/ IsNone(order.stop_price)
    THEN Reject(<<"limit_price and stop_price required for stop_limit orders">>)
    ELSE Accept([shape |-> "StopLimitOrderRequest",
            symbol |-> order.symbol, qty |-> order.qty,
            notional |-> order.notional,
            side |-> side, time_in_force |-> tif,
            limit_price |-> order.limit_price,
            stop_price |-> order.stop_price,
            extended_hours |-> order.extended_hours,
            client_order_id |-> order.client_order_id])

EquityStopLimit(order, side, tif) ==
    IF IsNone(order.limit_price) \/ IsNone(order.stop_price)
    THEN Reject(<<"limit_price and stop_price required for stop_limit orders">>)
    ELSE Accept([shape |-> "StopLimitOrderRequest",
            symbol |-> order.symbol, qty |-> order.qty,
            side |-> side, time_in_force |-> tif,
            limit_price |-> order.limit_price,
            stop_price |-> order.stop_price,
            extended_hours |-> order.extended_hours,
            client_order_id |-> order.client_order_id])

\* Variant: the trailing_stop branch insists on exactly one of trail_price
\* and trail_percent.
EquityTrailingStop_RequiresOneTrail(order, side, tif) ==
    IF IsNone(order.trail_price) = IsNone(order.trail_percent)
    THEN Reject(<<"exactly one of trail_price and trail_percent required">>)
    ELSE Accept([shape |-> "TrailingStopOrderRequest",
            symbol |-> order.symbol, qty |-> order.qty,
            side |-> side, time_in_force |-> tif,
            trail_price |-> order.trail_price,
            trail_percent |-> order.trail_percent,
            extended_hours |-> order.extended_hours,
            client_order_id |-> order.client_order_id])

\* Variant: the trailing_stop branch passes notional.
EquityTrailingStop_PassesNotional(order, side, tif) ==
    Accept([shape |-> "TrailingStopOrderRequest",
            symbol |-> order.symbol, qty |-> order.qty,
            notional |-> order.notional,
            side |-> side, time_in_force |-> tif,
            trail_price |-> order.trail_price,
            trail_percent |-> order.trail_percent,
            extended_hours |-> order.extended_hours,
            client_order_id |-> order.client_order_id])

EquityTrailingStop(order, side, tif) ==
    Accept([shape |-> "TrailingStopOrderRequest",
            symbol |-> order.symbol, qty |-> order.qty,
            side |-> side, time_in_force |-> tif,
            trail_price |-> order.trail_price,
            trail_percent |-> order.trail_percent,
            extended_hours |-> order.extended_hours,
            client_order_id |-> order.client_order_id])

ResolveEquityOrder(order, fmt) ==
    LET side == IF order.side = "buy" THEN "BUY" ELSE "SELL"
        tif == SdkTimeInForce(order.time_in_force)
    IN CASE order.type = "market" -> EquityMarket(order, side, tif)
         [] order.type = "limit" -> EquityLimit(order, side, tif)
         [] order.type = "stop" -> EquityStop(order, side, tif)
         [] order.type = "stop_limit" -> EquityStopLimit(order, side, tif)
         [] order.type = "trailing_stop" -> EquityTrailingStop(order, side, tif)
         [] OTHER ->
              Reject(<<"Unsupported order type: ", FormatOrderType(order.type, fmt)>>)

----------------------------------------------------------------------------
(* submit_option_order: main.py 374-434.  side, tif and position_intent    *)
(* are the locals of lines 377-383.                                        *)

OptionMarket(order, side, tif, position_intent) ==
    Accept([shape |-> "MarketOrderRequest",
            symbol |-> order.symbol, qty |-> order.qty,
            side |-> side, time_in_force |-> tif,
            position_intent |-> position_intent])

OptionLimit(order, side, tif, position_intent) ==
    IF IsNone(order.limit_price)
    THEN Reject(<<"limit_price required for limit orders">>)
    ELSE Accept([shape |-> "LimitOrderRequest",
            symbol |-> order.symbol, qty |-> order.qty,
            side |-> side, time_in_force |-> tif,
            limit_price |-> order.limit_price,
            position_intent |-> position_intent])

OptionStop(order, side, tif, position_intent) ==
    IF IsNone(order.stop_price)
    THEN Reject(<<"stop_price required for stop orders">>)
    ELSE Accept([shape |-> "StopOrderRequest",
            symbol |-> order.symbol, qty |-> order.qty,
            side |-> side, time_in_force |-> tif,
            stop_price |-> order.stop_price,
            position_intent |-> position_intent])

OptionStopLimit(order, side, tif, position_intent) ==
    IF IsNone(order.limit_price) \/ IsNone(order.stop_price)
    THEN Reject(<<"limit_price and stop_price required for stop_limit orders">>)
    ELSE Accept([shape |-> "StopLimitOrderRequest",
            symbol |-> order.symbol, qty |-> order.qty,
            side |-> side, time_in_force |-> tif,
            limit_price |-> order.limit_price,
            stop_price |-> order.stop_price,
            position_intent |-> position_intent])

\* Variant: an order without position_intent is given one from its side.
OptionPositionIntent_DefaultsFromSide(order) ==
    IF order.position_intent # None
    THEN Some(SdkPositionIntent(order.position_intent[1]))
    ELSE Some(IF order.side = "buy" THEN "BUY_TO_OPEN" ELSE "SELL_TO_OPEN")

\* position_intent = None; if order.position_intent: ... (main.py 381-383)
OptionPositionIntent(order) ==
    IF order.position_intent # None
    THEN Some(SdkPositionIntent(order.position_intent[1]))
    ELSE None

\* Variant: a trailing_stop option order is resolved by the stop branch.
ResolveOptionOrder_TrailingAsStop(order, fmt) ==
    LET side == IF order.side = "buy" THEN "BUY" ELSE "SELL"
        tif == SdkTimeInForce(order.time_in_force)
        order_type == SdkOrderType(order.type)
        position_intent == OptionPositionIntent(order)
    IN CASE order_type = "MARKET" -> OptionMarket(order, side, tif, position_intent)
         [] order_type = "LIMIT" -> OptionLimit(order, side, tif, position_intent)
         [] order_type \in {"STOP", "TRAILING_STOP"} ->
              OptionStop(order, side, tif, position_intent)
         [] order_type = "STOP_LIMIT" ->
              OptionStopLimit(order, side, tif, position_intent)
         [] OTHER ->
              Reject(<<"Unsupported order type for options: ",
                       FormatOrderType(order.type, fmt)>>)

ResolveOptionOrder(order, fmt) ==
    LET side == IF order.side = "buy" THEN "BUY" ELSE "SELL"
        tif == SdkTimeInForce(order.time_in_force)
        order_type == SdkOrderType(order.type)
        position_intent == OptionPositionIntent(order)
    IN CASE order_type = "MARKET" -> OptionMarket(order, side, tif, position_intent)
         [] order_type = "LIMIT" -> OptionLimit(order, side, tif, position_intent)
         [] order_type = "STOP" -> OptionStop(order, side, tif, position_intent)
         [] order_type = "STOP_LIMIT" ->
              OptionStopLimit(order, side, tif, position_intent)
         [] OTHER ->
              Reject(<<"Unsupported order type for options: ",
                       FormatOrderType(order.type, fmt)>>)

----------------------------------------------------------------------------
(* submit_multi_leg_order: main.py 437-480 *)

MinLegCount == 2
MaxLegCount == 4

\* Variant: ">=" for ">" in the upper leg-count test.
LegCountError_UpperInclusive(legs) ==
    IF Len(legs) < MinLegCount
    THEN Some(<<"At least 2 legs are required for multi-leg orders">>)
    ELSE IF Len(legs) >= MaxLegCount
    THEN Some(<<"At most 4 legs are allowed for multi-leg orders">>)
    ELSE None

\* The two leg-count tests (main.py 440-443): the detail of the rejection,
\* or None when the count is accepted.
LegCountError(legs) ==
    IF Len(legs) < MinLegCount
    THEN Some(<<"At least 2 legs are required for multi-leg orders">>)
    ELSE IF Len(legs) > MaxLegCount
    THEN Some(<<"At most 4 legs are allowed for multi-leg orders">>)
    ELSE None

\* Variant: a leg without side is given the side its position_intent
\* implies.
ResolveLeg_SideFromIntent(leg) ==
    [symbol |-> leg.symbol, ratio_qty |-> leg.ratio_qty,
     side |-> IF leg.side # None THEN Some(SdkOrderSide(leg.side[1]))
              ELSE IF leg.position_intent # None
              THEN Some(IF leg.position_intent[1] \in {"buy_to_open", "buy_to_close"}
                        THEN "BUY" ELSE "SELL")
              ELSE None,
     position_intent |->
        IF leg.position_intent # None
        THEN Some(SdkPositionIntent(leg.position_intent[1]))
        ELSE None]

\* One pass of the loop over order.legs (main.py 449-457)
ResolveLeg(leg) ==
    [symbol |-> leg.symbol, ratio_qty |-> leg.ratio_qty,
     side |-> IF leg.side # None THEN Some(SdkOrderSide(leg.side[1])) ELSE None,
     position_intent |->
        IF leg.position_intent # None
        THEN Some(SdkPositionIntent(leg.position_intent[1]))
        ELSE None]

\* Variant: each resolved leg is put at the front of the list.
RECURSIVE ResolveLegs_Prepends(_)
ResolveLegs_Prepends(legs) ==
    IF legs = << >> THEN << >>
    ELSE ResolveLegs_Prepends(Tail(legs)) \o <<ResolveLeg(Head(legs))>>

\* legs = []; for leg in order.legs: legs.append(OptionLegRequest(...))
RECURSIVE ResolveLegs(_)
ResolveLegs(legs) ==
    IF legs = << >> THEN << >>
    ELSE <<ResolveLeg(Head(legs))>> \o ResolveLegs(Tail(legs))

MultiLegLimit(order, tif, legs) ==
    IF IsNone(order.limit_price)
    THEN Reject(<<"limit_price required for limit orders">>)
    ELSE Accept([shape |-> "LimitOrderRequest",
            qty |-> order.qty, time_in_force |-> tif,
            limit_price |-> order.limit_price,
            order_class |-> "MLEG", legs |-> legs])

MultiLegMarket(order, tif, legs) ==
    Accept([shape |-> "MarketOrderRequest",
            qty |-> order.qty, time_in_force |-> tif,
            order_class |-> "MLEG", legs |-> legs])

\* Variant: a type that is neither limit nor market is submitted as a
\* market order.
ResolveMultiLegType_FallsBackToMarket(order, fmt) ==
    LET tif == SdkTimeInForce(order.time_in_force)
        order_type == SdkOrderType(order.type)
        legs == ResolveLegs(order.legs)
    IN CASE order_type = "LIMIT" -> MultiLegLimit(order, tif, legs)
         [] OTHER -> MultiLegMarket(order, tif, legs)

\* main.py 445-477: what follows the leg-count tests
ResolveMultiLegType(order, fmt) ==
    LET tif == SdkTimeInForce(order.time_in_force)
        order_type == SdkOrderType(order.type)
        legs == ResolveLegs(order.legs)
    IN CASE order_type = "LIMIT" -> MultiLegLimit(order, tif, legs)
         [] order_type = "MARKET" -> MultiLegMarket(order, tif, legs)
         [] OTHER ->
              Reject(<<"Unsupported order type for multi-leg: ",
                       FormatOrderType(order.type, fmt)>>)

\* Variant: the type and the price are validated before the legs are counted.
ResolveMultiLegOrder_TypeFirst(order, fmt) ==
    LET typed == ResolveMultiLegType(order, fmt)
    IN IF ~typed.ok THEN typed
       ELSE IF LegCountError(order.legs) # None
       THEN Reject(LegCountError(order.legs)[1])
       ELSE typed

ResolveMultiLegOrder(order, fmt) ==
    IF LegCountError(order.legs) # None
    THEN Reject(LegCountError(order.legs)[1])
    ELSE ResolveMultiLegType(order, fmt)

----------------------------------------------------------------------------
(* get_trading_client: main.py 50-58.  The lru_cache holds the handle      *)
(* once the first call returned; a call that finds it constructs nothing.  *)

TradingClientHandle == 1

CacheAfterCall(cache) == IF IsNone(cache) THEN Some(TradingClientHandle) ELSE cache
ConstructedByCall(cache) == IF IsNone(cache) THEN 1 ELSE 0

\* What TradingClient.submit_order does with the request is the brokerage's:
\* it returns an order or raises.
BrokerOutcomes == {"order", "error"}

\* Variant: a call to submit_order that raised is made a second time.
Dispatch_RetriesOnError(res, outcome) ==
    IF res.ok
    THEN /\ calls' = IF outcome = "order"
                     THEN Append(calls, res.intent)
                     ELSE Append(Append(calls, res.intent), res.intent)
         /\ clientCache' = CacheAfterCall(clientCache)
         /\ constructed' = constructed + ConstructedByCall(clientCache)
         /\ response' = IF outcome = "order"
                        THEN [status |-> StatusOk, detail |-> None]
                        ELSE [status |-> StatusServerError, detail |-> None]
    ELSE /\ response' = [status |-> res.status, detail |-> Some(res.detail)]
         /\ UNCHANGED <<calls, clientCache, constructed>>

\* The tail of the three handlers: on a rejection the HTTPException is the
\* response; otherwise get_trading_client().submit_order(intent) is called
\* and its result serialized (an exception of the client is a 500).
Dispatch(res, outcome) ==
    IF res.ok
    THEN /\ calls' = Append(calls, res.intent)
         /\ clientCache' = CacheAfterCall(clientCache)
         /\ constructed' = constructed + ConstructedByCall(clientCache)
         /\ response' = IF outcome = "order"
                        THEN [status |-> StatusOk, detail |-> None]
                        ELSE [status |-> StatusServerError, detail |-> None]
    ELSE /\ response' = [status |-> res.status, detail |-> Some(res.detail)]
         /\ UNCHANGED <<calls, clientCache, constructed>>

SubmitOrder ==
    /\ pc = "received"
    /\ endpoint = "/orders"
    /\ request # None
    /\ \E fmt \in PythonEnumFormats, outcome \in BrokerOutcomes :
          Dispatch(ResolveEquityOrder(request, fmt), outcome)
    /\ pc' = "responded"
    /\ UNCHANGED <<endpoint, body, request>>
    /\ UNCHANGED concVars

SubmitOptionOrder ==
    /\ pc = "received"
    /\ endpoint = "/options/orders"
    /\ request # None
    /\ \E fmt \in PythonEnumFormats, outcome \in BrokerOutcomes :
          Dispatch(ResolveOptionOrder(request, fmt), outcome)
    /\ pc' = "responded"
    /\ UNCHANGED <<endpoint, body, request>>
    /\ UNCHANGED concVars

SubmitMultiLegOrder ==
    /\ pc = "received"
    /\ endpoint = "/options/orders/multi-leg"
    /\ request # None
    /\ \E fmt \in PythonEnumFormats, outcome \in BrokerOutcomes :
          Dispatch(ResolveMultiLegOrder(request, fmt), outcome)
    /\ pc' = "responded"
    /\ UNCHANGED <<endpoint, body, request>>
    /\ UNCHANGED concVars

----------------------------------------------------------------------------
(* close_position: main.py 244-257 *)

\* str(d) of a Decimal d
StrOfDecimal(d) == <<"str", d>>

\* close_request (main.py 249-254): None, or the AlpacaCloseRequest
CloseOptions(req) ==
    IF req # None /\ (Truthy(req.qty) \/ Truthy(req.percentage))
    THEN Some([qty |-> IF Truthy(req.qty)
                       THEN Some(StrOfDecimal(req.qty[1])) ELSE None,
               percentage |-> IF Truthy(req.percentage)
                              THEN Some(StrOfDecimal(req.percentage[1])) ELSE None])
    ELSE None

ClosePosition ==
    /\ pc = "received"
    /\ endpoint = "/positions/{symbol}"
    /\ \E outcome \in BrokerOutcomes :
          /\ calls' = Append(calls, [symbol |-> request.symbol,
                                     close_options |-> CloseOptions(request.request)])
          /\ clientCache' = CacheAfterCall(clientCache)
          /\ constructed' = constructed + ConstructedByCall(clientCache)
          /\ response' = IF outcome = "order"
                         THEN [status |-> StatusOk, detail |-> None]
                         ELSE [status |-> StatusServerError, detail |-> None]
    /\ pc' = "responded"
    /\ UNCHANGED <<endpoint, body, request>>
    /\ UNCHANGED concVars

\* A body the schema refuses is answered 422 by the framework; no handler
\* runs.
SchemaReject ==
    /\ pc = "received"
    /\ request = None
    /\ response' = [status |-> StatusUnprocessable, detail |-> None]
    /\ pc' = "unprocessable"
    /\ UNCHANGED <<endpoint, body, request, calls, clientCache, constructed>>
    /\ UNCHANGED concVars

----------------------------------------------------------------------------

NoResponse == [status |-> 0, detail |-> None]

Workers == 1..NumWorkers

\* A thread that is in no handler, and a frame of no call
IdleWorker == [pc |-> "idle", received |-> None, result |-> None, client |-> None]
NoLocals == [order |-> None, resolved |-> None, client |-> None]

Init ==
    /\ pc = "received"
    /\ worker = [w \in Workers |-> IdleWorker]
    /\ frames = [f \in Workers |-> NoLocals]
    /\ pyFormat = "name"
    /\ \/ /\ endpoint = "/orders"
          /\ body \in OrderBody
          /\ request = ValidateOrderRequest(body)
       \/ /\ endpoint = "/options/orders"
          /\ body \in OptionOrderBody
          /\ request = ValidateOptionOrderRequest(body)
       \/ /\ endpoint = "/options/orders/multi-leg"
          /\ body \in MultiLegOrderBody
          /\ request = ValidateMultiLegOrderRequest(body)
       \/ /\ endpoint = "/positions/{symbol}"
          /\ body \in ClosePositionArgs
          /\ request = body
    /\ response = NoResponse
    /\ calls = << >>
    /\ clientCache \in Opt({TradingClientHandle})
    /\ constructed = IF IsNone(clientCache) THEN 0 ELSE 1

Next ==
    \/ SubmitOrder
    \/ SubmitOptionOrder
    \/ SubmitMultiLegOrder
    \/ ClosePosition
    \/ SchemaReject

Spec == Init /\ [][Next]_vars

----------------------------------------------------------------------------
(* The handlers run by the threads of the server's pool, step by step.     *)
(* The order handlers are plain functions (def, not async def): the        *)
(* framework runs each call on a thread of its pool, so calls overlap.     *)
(* What a call computes it keeps in its own local variables; the one       *)
(* object the calls share is the lru_cache of get_trading_client.          *)

\* The requests the threads are given
ConcEquityOrders ==
    {[symbol |-> "AAPL", qty |-> Some(1), notional |-> None, side |-> "buy",
      type |-> t, time_in_force |-> "day", limit_price |-> lp,
      stop_price |-> None, trail_price |-> None, trail_percent |-> None,
      extended_hours |-> FALSE, client_order_id |-> None] :
        t \in {"market", "limit", "trailing_stop"}, lp \in Opt({1})}

ConcLegs(n) == [i \in 1..n |->
    [symbol |-> IF i = 1 THEN "AAPL250117C00150000" ELSE "AAPL250117C00160000",
     ratio_qty |-> 1, side |-> Some("buy"), position_intent |-> None]]

ConcMultiLegOrders ==
    {[qty |-> 1, type |-> t, time_in_force |-> "day", legs |-> ConcLegs(n),
      limit_price |-> Some(1)] : t \in {"limit", "stop"}, n \in {1, 2}}

ConcRequests ==
    {[route |-> "/orders", order |-> o] : o \in ConcEquityOrders}
    \cup {[route |-> "/options/orders/multi-leg", order |-> o] :
            o \in ConcMultiLegOrders}

\* The resolution of the handler the route names
ResolveRoute(rq, fmt) ==
    CASE rq.route = "/orders" -> ResolveEquityOrder(rq.order, fmt)
      [] rq.route = "/options/orders" -> ResolveOptionOrder(rq.order, fmt)
      [] rq.route = "/options/orders/multi-leg" -> ResolveMultiLegOrder(rq.order, fmt)

\* Variant: the handlers keep what they compute in module-level variables
\* (global order_request), one set for all the calls.
Frame_ModuleLevel(w) == 1

\* Where the local variables of the call thread w runs live: each call has
\* its own.
Frame(w) == w

\* The framework calls the handler with the validated request
Receive(w) ==
    /\ worker[w].pc = "idle"
    /\ \E rq \in ConcRequests :
          /\ worker' = [worker EXCEPT ![w] =
                [pc |-> "called", received |-> Some(rq),
                 result |-> None, client |-> None]]
          /\ frames' = [frames EXCEPT ![Frame(w)] =
                [order |-> Some(rq), resolved |-> None, client |-> None]]
    /\ UNCHANGED <<clientCache, constructed, pyFormat>>
    /\ UNCHANGED seqVars

\* The handler up to the call of get_trading_client: the request object of
\* the brokerage is built into a local, or the HTTPException leaves the
\* handler.
ResolveStep(w) ==
    /\ worker[w].pc = "called"
    /\ LET res == ResolveRoute(frames[Frame(w)].order[1], pyFormat)
       IN IF res.ok
          THEN /\ frames' = [frames EXCEPT ![Frame(w)].resolved = Some(res)]
               /\ worker' = [worker EXCEPT ![w].pc = "lookup"]
          ELSE /\ frames' = [frames EXCEPT ![Frame(w)] = NoLocals]
               /\ worker' = [worker EXCEPT ![w].pc = "responded",
                                           ![w].result = Some(res)]
    /\ UNCHANGED <<clientCache, constructed, pyFormat>>
    /\ UNCHANGED seqVars

\* get_trading_client(), the lookup of the lru_cache: a hit returns the
\* cached client, a miss goes on to call the wrapped function.
CacheLookup(w) ==
    /\ worker[w].pc = "lookup"
    /\ IF clientCache # None
       THEN /\ frames' = [frames EXCEPT ![Frame(w)].client = clientCache]
            /\ worker' = [worker EXCEPT ![w].pc = "submit"]
       ELSE /\ worker' = [worker EXCEPT ![w].pc = "construct"]
            /\ UNCHANGED frames
    /\ UNCHANGED <<clientCache, constructed, pyFormat>>
    /\ UNCHANGED seqVars

\* get_trading_client(), after a miss: the wrapped function constructs a
\* TradingClient, which the call returns; the cache keeps it unless another
\* call has filled the cache meanwhile.
Construct(w) ==
    /\ worker[w].pc = "construct"
    /\ constructed' = constructed + 1
    /\ frames' = [frames EXCEPT ![Frame(w)].client = Some(constructed + 1)]
    /\ clientCache' = IF clientCache = None THEN Some(constructed + 1)
                      ELSE clientCache
    /\ worker' = [worker EXCEPT ![w].pc = "submit"]
    /\ UNCHANGED pyFormat
    /\ UNCHANGED seqVars

\* client.submit_order(order_request), and the answer
SubmitStep(w) ==
    /\ worker[w].pc = "submit"
    /\ worker' = [worker EXCEPT ![w].pc = "responded",
                                ![w].result = frames[Frame(w)].resolved,
                                ![w].client = frames[Frame(w)].client]
    /\ frames' = [frames EXCEPT ![Frame(w)] = NoLocals]
    /\ UNCHANGED <<clientCache, constructed, pyFormat>>
    /\ UNCHANGED seqVars

\* The thread is free for the next request
Return(w) ==
    /\ worker[w].pc = "responded"
    /\ worker' = [worker EXCEPT ![w] = IdleWorker]
    /\ UNCHANGED <<frames, clientCache, constructed, pyFormat>>
    /\ UNCHANGED seqVars

InitConc ==
    /\ endpoint = "/orders"
    /\ body = None
    /\ request = None
    /\ pc = "none"
    /\ response = NoResponse
    /\ calls = << >>
    /\ clientCache = None
    /\ constructed = 0
    /\ worker = [w \in Workers |-> IdleWorker]
    /\ frames = [f \in Workers |-> NoLocals]
    /\ pyFormat \in PythonEnumFormats

NextConc ==
    \/ \E w \in Workers : Receive(w)
    \/ \E w \in Workers : ResolveStep(w)
    \/ \E w \in Workers : CacheLookup(w)
    \/ \E w \in Workers : Construct(w)
    \/ \E w \in Workers : SubmitStep(w)
    \/ \E w \in Workers : Return(w)

SpecConc == InitConc /\ [][NextConc]_vars

----------------------------------------------------------------------------
(* Vocabulary of the properties *)

OrderRoutes == {"/orders", "/options/orders", "/options/orders/multi-leg"}

\* One of the three order handlers ran
Responded == pc = "responded" /\ endpoint \in OrderRoutes
HandledBy(route) == pc = "responded" /\ endpoint = route

\* The handler resolved the request: one intent went to submit_order.
Resolved == Len(calls) = 1 /\ response.status # StatusBadRequest
Intent == calls[1]

\* The handler failed the request with this message and submitted nothing.
RejectedWith(msg) ==
    /\ response.status = StatusBadRequest
    /\ response.detail = Some(msg)
    /\ calls = << >>

\* The handler failed the request with a message that starts with prefix.
RejectedWithPrefix(prefix) ==
    /\ response.status = StatusBadRequest
    /\ response.detail # None
    /\ response.detail[1][1] = prefix
    /\ calls = << >>

LimitPriceRequired == <<"limit_price required for limit orders">>
StopPriceRequired == <<"stop_price required for stop orders">>
BothPricesRequired == <<"limit_price and stop_price required for stop_limit orders">>
AtLeastTwoLegs == <<"At least 2 legs are required for multi-leg orders">>
AtMostFourLegs == <<"At most 4 legs are allowed for multi-leg orders">>
UnsupportedForOptions == "Unsupported order type for options: "
UnsupportedForMultiLeg == "Unsupported order type for multi-leg: "

\* The brokerage order shape of each order type
ShapeOfType(type) ==
    CASE type = "market" -> "MarketOrderRequest"
      [] type = "limit" -> "LimitOrderRequest"
      [] type = "stop" -> "StopOrderRequest"
      [] type = "stop_limit" -> "StopLimitOrderRequest"
      [] type = "trailing_stop" -> "TrailingStopOrderRequest"

\* The requests the specification says fail validation, per route
MissingPrice(order) ==
    \/ order.type = "limit" /\ order.limit_price = None
    \/ order.type = "stop" /\ order.stop_price = None
    \/ order.type = "stop_limit" /\ (order.limit_price = None \/ order.stop_price = None)

MustFailValidation ==
    CASE endpoint = "/orders" -> MissingPrice(request)
      [] endpoint = "/options/orders" ->
            MissingPrice(request) \/ request.type = "trailing_stop"
      [] endpoint = "/options/orders/multi-leg" ->
            \/ Len(request.legs) < 2
            \/ Len(request.legs) > 4
            \/ request.type \notin {"market", "limit"}
            \/ request.type = "limit" /\ request.limit_price = None

ValidationMessages ==
    {LimitPriceRequired, StopPriceRequired, BothPricesRequired,
     AtLeastTwoLegs, AtMostFourLegs}
    \cup {<<p, f>> : p \in {UnsupportedForOptions, UnsupportedForMultiLeg},
                     f \in {FormatOrderType(t, fmt) :
                              t \in OrderTypeValues, fmt \in PythonEnumFormats}}

----------------------------------------------------------------------------
(* C1: a handled order request either reaches submit_order exactly once,   *)
(* with the brokerage order shape of the request's type, or is rejected    *)
(* with submit_order never called; never more than one call, never a shape *)
(* of another type.                                                        *)
C1_OneShapeOrRejected ==
    Responded =>
        \/ /\ Len(calls) = 1
           /\ calls[1].shape = ShapeOfType(request.type)
           /\ response.status # StatusBadRequest
        \/ /\ calls = << >>
           /\ response.status = StatusBadRequest

C1_Witness ==
    /\ HandledBy("/orders")
    /\ request.type = "trailing_stop"
    /\ Len(calls) = 1
    /\ calls[1].shape = "TrailingStopOrderRequest"
    /\ response.status = StatusServerError

(* C2: every request that fails validation (a conditionally required      *)
(* price is missing, the type is unsupported, the leg count is out of      *)
(* bounds) is answered 400 with the failure message as detail, and a 400   *)
(* answer is only ever given with submit_order not called.                 *)
C2_ValidationFailureIs400 ==
    Responded =>
        /\ MustFailValidation =>
              /\ response.status = StatusBadRequest
              /\ response.detail # None
              /\ response.detail[1] \in ValidationMessages
        /\ response.status = StatusBadRequest => calls = << >>

C2_Witness ==
    /\ HandledBy("/options/orders/multi-leg")
    /\ Len(request.legs) = 3
    /\ request.type = "stop_limit"
    /\ response.status = StatusBadRequest
    /\ calls = << >>

(* C3: an equity limit order without limit_price is rejected with          *)
(* "limit_price required for limit orders" whatever its other fields; with *)
(* limit_price it is resolved to an intent carrying that limit_price.      *)
C3_EquityLimit ==
    HandledBy("/orders") /\ request.type = "limit" =>
        IF request.limit_price = None
        THEN RejectedWith(LimitPriceRequired)
        ELSE /\ Resolved
             /\ Intent.shape = "LimitOrderRequest"
             /\ Intent.limit_price = request.limit_price

C3_Witness ==
    /\ HandledBy("/orders")
    /\ request.type = "limit"
    /\ request.limit_price = Some(2)
    /\ request.stop_price = None
    /\ Resolved
    /\ Intent.limit_price = Some(2)

(* C4: an equity stop order without stop_price is rejected with            *)
(* "stop_price required for stop orders" whether or not limit_price is     *)
(* set; with stop_price it is resolved to a stop intent carrying that      *)
(* stop_price.                                                             *)
C4_EquityStop ==
    HandledBy("/orders") /\ request.type = "stop" =>
        IF request.stop_price = None
        THEN RejectedWith(StopPriceRequired)
        ELSE /\ Resolved
             /\ Intent.shape = "StopOrderRequest"
             /\ Intent.stop_price = request.stop_price

C4_Witness ==
    /\ HandledBy("/orders")
    /\ request.type = "stop"
    /\ request.stop_price = None
    /\ request.limit_price # None
    /\ RejectedWith(StopPriceRequired)

(* C5: an equity stop_limit order is resolved if and only if limit_price   *)
(* and stop_price are both present, and the intent then carries both       *)
(* unchanged; when either or both are absent it is rejected, with the same *)
(* one message in the three cases.                                         *)
C5_EquityStopLimit ==
    HandledBy("/orders") /\ request.type = "stop_limit" =>
        /\ Resolved <=> (request.limit_price # None /\ request.stop_price # None)
        /\ Resolved =>
              /\ Intent.shape = "StopLimitOrderRequest"
              /\ Intent.limit_price = request.limit_price
              /\ Intent.stop_price = request.stop_price
        /\ ~Resolved => RejectedWith(BothPricesRequired)

C5_Witness ==
    /\ HandledBy("/orders")
    /\ request.type = "stop_limit"
    /\ request.limit_price = Some(1)
    /\ request.stop_price = None
    /\ RejectedWith(BothPricesRequired)

(* C6: a multi-leg order with 0 or 1 legs is rejected with the "at least   *)
(* 2 legs" message, one with 5 or more legs with the "at most 4 legs"      *)
(* message, and one with 2, 3 or 4 legs that is a market order, or a limit *)
(* order with limit_price, is resolved.                                    *)
C6_LegCount ==
    HandledBy("/options/orders/multi-leg") =>
        /\ Len(request.legs) \in {0, 1} => RejectedWith(AtLeastTwoLegs)
        /\ Len(request.legs) >= 5 => RejectedWith(AtMostFourLegs)
        /\ /\ Len(request.legs) \in {2, 3, 4}
           /\ \/ request.type = "market"
              \/ request.type = "limit" /\ request.limit_price # None
           => Resolved

C6_Witness ==
    /\ HandledBy("/options/orders/multi-leg")
    /\ Len(request.legs) = 4
    /\ request.type = "limit"
    /\ request.limit_price # None
    /\ Resolved

(* C7: the legs are counted before the type is looked at: a multi-leg      *)
(* order whose leg count is outside 2..4 gets a leg-count message, never   *)
(* the unsupported-type or the limit_price message, also when its type is  *)
(* stop, stop_limit or trailing_stop, or limit without limit_price.        *)
C7_LegCountBeforeType ==
    /\ HandledBy("/options/orders/multi-leg")
    /\ Len(request.legs) \notin 2..4
    /\ \/ request.type \in {"stop", "stop_limit", "trailing_stop"}
       \/ request.type = "limit" /\ request.limit_price = None
    => /\ response.status = StatusBadRequest
       /\ response.detail \in {Some(AtLeastTwoLegs), Some(AtMostFourLegs)}
       /\ response.detail # Some(LimitPriceRequired)
       /\ response.detail[1][1] # UnsupportedForMultiLeg

C7_Witness ==
    /\ HandledBy("/options/orders/multi-leg")
    /\ Len(request.legs) = 5
    /\ request.type = "trailing_stop"
    /\ response.detail = Some(AtMostFourLegs)

(* C8: the intent of a resolved multi-leg order has the multi-leg order    *)
(* class and as many legs as the request, the i-th of them with the symbol *)
(* and the ratio_qty of the request's i-th leg.                            *)
C8_LegsInOrder ==
    HandledBy("/options/orders/multi-leg") /\ Resolved =>
        /\ Intent.order_class = "MLEG"
        /\ Len(Intent.legs) = Len(request.legs)
        /\ \A i \in 1..Len(request.legs) :
              /\ Intent.legs[i].symbol = request.legs[i].symbol
              /\ Intent.legs[i].ratio_qty = request.legs[i].ratio_qty

C8_Witness ==
    /\ HandledBy("/options/orders/multi-leg")
    /\ Resolved
    /\ Len(request.legs) = 3
    /\ request.legs[1].symbol # request.legs[2].symbol
    /\ request.legs[1].symbol = request.legs[3].symbol
    /\ Intent.legs[2].symbol = request.legs[2].symbol

(* C9: of the multi-leg orders with 2 to 4 legs, a market order is         *)
(* resolved with or without limit_price, a limit order is resolved exactly *)
(* when it has limit_price and is otherwise rejected with the limit_price  *)
(* message, and a stop, stop_limit or trailing_stop order is rejected with *)
(* "Unsupported order type for multi-leg" and nothing is submitted.        *)
C9_MultiLegTypes ==
    HandledBy("/options/orders/multi-leg") /\ Len(request.legs) \in 2..4 =>
        /\ request.type = "market" =>
              Resolved /\ Intent.shape = "MarketOrderRequest"
        /\ request.type = "limit" =>
              /\ Resolved <=> request.limit_price # None
              /\ Resolved => Intent.shape = "LimitOrderRequest"
              /\ ~Resolved => RejectedWith(LimitPriceRequired)
        /\ request.type \in {"stop", "stop_limit", "trailing_stop"} =>
              RejectedWithPrefix(UnsupportedForMultiLeg)

C9_Witness ==
    /\ HandledBy("/options/orders/multi-leg")
    /\ Len(request.legs) = 2
    /\ request.type = "stop"
    /\ request.limit_price # None
    /\ RejectedWithPrefix(UnsupportedForMultiLeg)

(* C10: an option order of type market, limit, stop or stop_limit is       *)
(* resolved under the price rules of equity orders (limit needs            *)
(* limit_price, stop needs stop_price, stop_limit needs both), and one of  *)
(* type trailing_stop is always rejected with "Unsupported order type for  *)
(* options" and never submitted, whatever its other fields.                *)
C10_OptionTypes ==
    HandledBy("/options/orders") =>
        /\ request.type = "trailing_stop" =>
              RejectedWithPrefix(UnsupportedForOptions)
        /\ request.type # "trailing_stop" =>
              /\ Resolved <=> ~MissingPrice(request)
              /\ Resolved => Intent.shape = ShapeOfType(request.type)
              /\ ~Resolved =>
                    RejectedWith(CASE request.type = "limit" -> LimitPriceRequired
                                   [] request.type = "stop" -> StopPriceRequired
                                   [] request.type = "stop_limit" -> BothPricesRequired)

C10_Witness ==
    /\ HandledBy("/options/orders")
    /\ request.type = "trailing_stop"
    /\ request.stop_price # None
    /\ request.position_intent # None
    /\ RejectedWithPrefix(UnsupportedForOptions)

----------------------------------------------------------------------------
\* The value of a member of a brokerage enumeration
MemberValue(m) ==
    CASE m = "BUY" -> "buy" [] m = "SELL" -> "sell"
      [] m = "DAY" -> "day" [] m = "GTC" -> "gtc" [] m = "OPG" -> "opg"
      [] m = "CLS" -> "cls" [] m = "IOC" -> "ioc" [] m = "FOK" -> "fok"
      [] m = "BUY_TO_OPEN" -> "buy_to_open" [] m = "BUY_TO_CLOSE" -> "buy_to_close"
      [] m = "SELL_TO_OPEN" -> "sell_to_open" [] m = "SELL_TO_CLOSE" -> "sell_to_close"

\* An optional member with the same value as an optional request field
SameOptional(member, field) ==
    IF field = None THEN member = None
    ELSE member # None /\ MemberValue(member[1]) = field[1]

(* C11: the intent of a resolved option order, of any of the four          *)
(* supported types, has the position_intent of the request when the        *)
(* request has one and none when it has none; a request that lacks a       *)
(* required price is rejected also when it has a position_intent.          *)
C11_OptionPositionIntent ==
    HandledBy("/options/orders") =>
        /\ Resolved =>
              /\ request.type \in {"market", "limit", "stop", "stop_limit"}
              /\ SameOptional(Intent.position_intent, request.position_intent)
        /\ MissingPrice(request) /\ request.position_intent # None =>
              response.status = StatusBadRequest /\ calls = << >>

C11_Witness ==
    /\ HandledBy("/options/orders")
    /\ request.type = "stop_limit"
    /\ request.position_intent = None
    /\ request.side = "sell"
    /\ Resolved
    /\ Intent.position_intent = None

(* C13: an equity market order is resolved whatever optional prices, qty   *)
(* and notional it has or lacks, and its intent carries the request's      *)
(* symbol, qty, notional, side, time_in_force (day when the body omits     *)
(* it), extended_hours and client_order_id.                                *)
C13_EquityMarket ==
    HandledBy("/orders") /\ request.type = "market" =>
        /\ Resolved
        /\ Intent.shape = "MarketOrderRequest"
        /\ Intent.symbol = body.symbol
        /\ Intent.qty = body.qty
        /\ Intent.notional = body.notional
        /\ MemberValue(Intent.side) = body.side
        /\ MemberValue(Intent.time_in_force) =
              (IF body.time_in_force = None THEN "day" ELSE body.time_in_force[1])
        /\ Intent.extended_hours = request.extended_hours
        /\ Intent.client_order_id = body.client_order_id

C13_Witness ==
    /\ HandledBy("/orders")
    /\ request.type = "market"
    /\ body.time_in_force = None
    /\ body.qty = None
    /\ body.notional # None
    /\ body.limit_price # None
    /\ Resolved
    /\ Intent.time_in_force = "DAY"

(* C15: an equity trailing_stop order is resolved for each of the four     *)
(* ways trail_price and trail_percent can be present or absent, and its    *)
(* intent carries both as given.                                           *)
C15_TrailingStopPermissive ==
    HandledBy("/orders") /\ request.type = "trailing_stop" =>
        /\ Resolved
        /\ Intent.shape = "TrailingStopOrderRequest"
        /\ Intent.trail_price = request.trail_price
        /\ Intent.trail_percent = request.trail_percent

C15_Witness ==
    /\ HandledBy("/orders")
    /\ request.type = "trailing_stop"
    /\ request.trail_price = None
    /\ request.trail_percent = None
    /\ Resolved

(* C16: the intent of a resolved equity market, limit or stop order        *)
(* carries the notional of the request; the intent of a stop_limit order   *)
(* carries no notional, also when the request has one, and a stop_limit    *)
(* order is resolved without notional.                                     *)
C16_NotionalByType ==
    HandledBy("/orders") =>
        /\ Resolved /\ request.type \in {"market", "limit", "stop"} =>
              /\ "notional" \in DOMAIN Intent
              /\ Intent.notional = request.notional
        /\ Resolved /\ request.type = "stop_limit" =>
              "notional" \notin DOMAIN Intent
        /\ /\ request.type = "stop_limit"
           /\ ~MissingPrice(request)
           /\ request.notional = None
           => Resolved

C16_Witness ==
    /\ HandledBy("/orders")
    /\ request.type = "stop_limit"
    /\ request.notional # None
    /\ Resolved
    /\ "notional" \notin DOMAIN Intent

(* C17: each leg of a resolved multi-leg order has no side exactly when    *)
(* the request's leg has none, and otherwise the request's side; the same  *)
(* for position_intent.  Nothing is put in place of an absent one.         *)
C17_LegOptionalsPassThrough ==
    HandledBy("/options/orders/multi-leg") /\ Resolved =>
        \A i \in 1..Len(request.legs) :
            /\ SameOptional(Intent.legs[i].side, request.legs[i].side)
            /\ SameOptional(Intent.legs[i].position_intent,
                            request.legs[i].position_intent)

C17_Witness ==
    /\ HandledBy("/options/orders/multi-leg")
    /\ Resolved
    /\ Len(request.legs) = 2
    /\ request.legs[1].side = None
    /\ request.legs[1].position_intent # None
    /\ request.legs[2].side # None
    /\ request.legs[2].position_intent = None
    /\ Intent.legs[1].side = None
    /\ Intent.legs[2].position_intent = None

(* C20: the intent of an equity trailing_stop order carries no notional;   *)
(* a trailing_stop or stop_limit order with notional and no qty is not     *)
(* rejected for it and goes to the brokerage as an intent with no qty and  *)
(* no notional.                                                            *)
C20_NotionalDropped ==
    HandledBy("/orders") =>
        /\ request.type = "trailing_stop" =>
              Resolved /\ "notional" \notin DOMAIN Intent
        /\ /\ request.type \in {"trailing_stop", "stop_limit"}
           /\ ~MissingPrice(request)
           /\ request.notional # None
           /\ request.qty = None
           => /\ Resolved
              /\ Intent.qty = None
              /\ "notional" \notin DOMAIN Intent

C20_Witness ==
    /\ HandledBy("/orders")
    /\ request.type = "trailing_stop"
    /\ request.notional # None
    /\ request.qty = None
    /\ Resolved
    /\ Intent.qty = None

----------------------------------------------------------------------------
\* The handler failed the request with a message made of this prefix and of
\* the type of the request, as either Python formats it.
NamesValueAndCategory(prefix) ==
    /\ RejectedWithPrefix(prefix)
    /\ Len(response.detail[1]) = 2
    /\ response.detail[1][2] \in {body.type, "OrderType." \o body.type}

\* The types each resolver resolves
SupportedTypes(route) ==
    CASE route = "/orders" -> OrderTypeValues
      [] route = "/options/orders" -> {"market", "limit", "stop", "stop_limit"}
      [] route = "/options/orders/multi-leg" -> {"market", "limit"}

\* The prefix that names the category of each route
CategoryPrefix(route) ==
    CASE route = "/orders" -> "Unsupported order type for equity: "
      [] route = "/options/orders" -> UnsupportedForOptions
      [] route = "/options/orders/multi-leg" -> UnsupportedForMultiLeg

\* An answered order request whose type its resolver does not resolve (a
\* multi-leg one with a legal leg count).
AnsweredUnsupportedType ==
    /\ pc # "received"
    /\ endpoint \in OrderRoutes
    /\ body.type \notin SupportedTypes(endpoint)
    /\ endpoint = "/options/orders/multi-leg" => Len(body.legs) \in 2..4

(* C12 as stated: a type outside the legal types of its resolver, a value  *)
(* outside OrderType such as "iceberg" included, is failed by the resolver *)
(* with a 400 whose message names the value and the order category.        *)
C12_AsStated ==
    AnsweredUnsupportedType => NamesValueAndCategory(CategoryPrefix(endpoint))

(* C12, amended: a value outside OrderType never reaches a resolver: the   *)
(* schema refuses the body (422, nothing submitted).  A member of          *)
(* OrderType that reaches a resolver which does not resolve it             *)
(* (trailing_stop for options; stop, stop_limit, trailing_stop for         *)
(* multi-leg) is failed with a 400 whose message names the value and the   *)
(* category (options, multi-leg).  The equity resolver resolves every      *)
(* member and fails no type.                                               *)
C12_UnsupportedTypes ==
    AnsweredUnsupportedType =>
        IF body.type \notin OrderTypeValues
        THEN /\ pc = "unprocessable"
             /\ response.status = StatusUnprocessable
             /\ calls = << >>
        ELSE /\ pc = "responded"
             /\ endpoint # "/orders"
             /\ NamesValueAndCategory(CategoryPrefix(endpoint))

C12_Witness ==
    /\ pc = "responded"
    /\ endpoint = "/options/orders"
    /\ body.type = "trailing_stop"
    /\ response.detail = Some(<<UnsupportedForOptions, "OrderType.trailing_stop">>)

(* C14: close_position passes close_options = None only when the request   *)
(* body is absent or has neither qty nor percentage; when the body has a   *)
(* qty or a percentage, of any value, close_options is not None and        *)
(* carries the values the body has.                                        *)
C14_CloseOptions ==
    pc = "responded" /\ endpoint = "/positions/{symbol}" =>
        LET req == request.request
            supplied == req # None /\ (req.qty # None \/ req.percentage # None)
            options == calls[1].close_options
        IN /\ Len(calls) = 1
           /\ calls[1].symbol = request.symbol
           /\ options = None <=> ~supplied
           /\ supplied =>
                 /\ req.qty # None =>
                       options[1].qty = Some(StrOfDecimal(req.qty[1]))
                 /\ req.percentage # None =>
                       options[1].percentage = Some(StrOfDecimal(req.percentage[1]))

----------------------------------------------------------------------------
\* Thread w is inside a handler that has resolved its request
InFlight(w) == worker[w].pc \in {"lookup", "construct", "submit"}

(* C18: what a handler call makes of its request (the intent, or the       *)
(* failure and its message) is the resolution of that request alone,       *)
(* whatever the thread handled before and whatever the other threads are   *)
(* handling, however their steps interleave.                               *)
C18_OutcomeOfOwnRequest ==
    \A w \in Workers :
        /\ InFlight(w) =>
              frames[Frame(w)].resolved =
                  Some(ResolveRoute(worker[w].received[1], pyFormat))
        /\ worker[w].pc = "responded" =>
              worker[w].result =
                  Some(ResolveRoute(worker[w].received[1], pyFormat))

C18_Witness ==
    \E w1, w2 \in Workers :
        /\ w1 # w2
        /\ worker[w1].pc = "responded"
        /\ worker[w1].result[1].ok
        /\ worker[w1].received[1].route = "/orders"
        /\ InFlight(w2)
        /\ worker[w2].received[1].route = "/options/orders/multi-leg"

(* C19: the TradingClient is constructed at most once in the process and   *)
(* all the handler calls use that one client, also when the first calls    *)
(* of get_trading_client overlap.                                          *)
C19_SingleInitialization ==
    /\ constructed <= 1
    /\ \A w1, w2 \in Workers :
          worker[w1].client # None /\ worker[w2].client # None =>
              worker[w1].client = worker[w2].client

====
